---------------------------- MODULE Spec2Model ----------------------------
(*************************************************************************)
(* The rendition generation pipeline of MKVScanner: createStreaming()    *)
(* of src/index.ts with the process monitor of process-util.ts.          *)
(*                                                                       *)
(* One step of the model is one turn of the Node.js event loop: the      *)
(* handler of a process event, of a finished rename or of a timer,       *)
(* together with every promise reaction it triggers.                      *)
(*                                                                       *)
(* Numbers: widths are in hundredths of a pixel (853.33 -> 85333),        *)
(* percentages in tenths of a percent (99.9 -> 999, the redo sentinel    *)
(* -1 -> -10), percent tokens in hundredths of a percent, durations in   *)
(* milliseconds as in the source.                                        *)
(*                                                                       *)
(* File-system calls other than rename (lstat, mkdir, unlink, readFile,  *)
(* writeFile) are taken to succeed; rename may fail, which is the case   *)
(* the source provides for with finally() and try/catch.                 *)
(*************************************************************************)
EXTENDS Integers, Sequences, FiniteSets, Bags, TLC

VARIABLES
    src,          \* the Source Descriptor handed to createStreaming
    run,          \* 1 for the first invocation on the asset, 2 for the next
    pc,           \* where createStreaming stands
    files,        \* the output directory: file name -> content
    dirExists,    \* whether the asset's output directory exists
    plan,         \* what the planner computed at the start of the run
    audioTry,     \* loop index i of the audio-stream loop
    videoQueue,   \* pending queue (task names)
    redoQueue,    \* serial redo queue (task names)
    running,      \* the scheduler's counter of occupied parallel slots
    tries,        \* task name -> task.tries
    acts,         \* bag of transcoder activations: [t, mode, st]
    timers,       \* errors of the cleanUpAndFail timeouts not yet fired
    settled,      \* state of the scheduler promise
    err,          \* the error createStreaming rejected with
    progress,     \* the VideoProgress record: percent and errors maps
    spawned,      \* per run: how many processes were spawned, by name
    renamed,      \* per run: how many renames to a final name succeeded, by name
    clean,        \* no process and no rename has failed since Init
    prevOk,       \* run 2 only: run 1 returned without any failure
    aborted,      \* cleanUpAndFail has been called in this run
    succeeded,    \* per run: the tasks whose process has exited with code 0
    failed,       \* per run: task name -> how often its process has failed
    budget,       \* failures (process or rename) the environment may still inject
    reports,      \* progress lines the transcoders may still emit
    lastRetry,    \* what the catch handler decided, if the step that ran last had one
    dispatched    \* the tasks spawned by the handler that ran last, in spawn order

vars == << src, run, pc, files, dirExists, plan, audioTry, videoQueue, redoQueue,
           running, tries, acts, timers, settled, err, progress, spawned, renamed,
           clean, prevOk, aborted, succeeded, failed, budget, reports, lastRetry,
           dispatched >>

-----------------------------------------------------------------------------
(* Program constants *)

simultaneousMax == 6
maxTries == 6
MaxPixelHeight == 1100
SampleDuration == 180000

(* Bounds of the model *)

MaxFailures == 2        \* failures the environment injects, any asset
MaxRetryFailures == 17  \* failures the environment injects, the assets of RetryScenarios
MaxReports == 1         \* progress lines the transcoders emit

-----------------------------------------------------------------------------
(* Arithmetic helpers *)

Min(a, b) == IF a < b THEN a ELSE b

\* round(): nearest integer of n / d, halves up; n >= 0, d > 0
RoundDiv(n, d) == (2 * n + d) \div (2 * d)

RECURSIVE SeqCount(_, _)
SeqCount(s, x) ==
    IF s = << >> THEN 0
    ELSE (IF Head(s) = x THEN 1 ELSE 0) + SeqCount(Tail(s), x)

SeqSet(s) == { s[i] : i \in DOMAIN s }

RECURSIVE SumOver(_, _)
SumOver(f, S) ==
    IF S = {} THEN 0
    ELSE LET x == CHOOSE y \in S : TRUE IN f[x] + SumOver(f, S \ {x})

-----------------------------------------------------------------------------
(* The candidate renditions and the names of the output files *)

resolutions ==
    << [w |-> 192000, h |-> 1080, name |-> "1080p"],
       [w |-> 128000, h |-> 720,  name |-> "720p"],
       [w |-> 85333,  h |-> 480,  name |-> "480p"],
       [w |-> 64000,  h |-> 360,  name |-> "360p"],
       [w |-> 56900,  h |-> 320,  name |-> "320p"] >>

TaskNames == { resolutions[i].name : i \in DOMAIN resolutions }
ProcNames == TaskNames \cup {"audio", "mux"}

\* A file name is << stem, extension >>; the stem stands for mpdRoot + stem.
mpdPath == << "", "mpd" >>
avPath == << ".av", "webm" >>
mobilePath == << ".mobile", "mp4" >>
samplePath == << ".sample", "mp4" >>
audioOnlyPath == << ".audio", "webm" >>
busyPath == << "busy", "txt" >>
errorReportPath == << "error-report", "txt" >>
NoPath == << "", "" >>

vPath(h) ==
    CASE h = 1080 -> << ".v1080", "webm" >>
      [] h = 720  -> << ".v720", "webm" >>
      [] OTHER    -> << ".v480", "webm" >>

\* tmp(file): ".tmp" goes in front of the last extension
tmp(file) == << file[1] \o ".tmp", file[2] >>

FinalFiles == { mpdPath, avPath, mobilePath, samplePath, audioOnlyPath,
                vPath(1080), vPath(720), vPath(480) }
AllFiles == FinalFiles \cup { tmp(f) : f \in FinalFiles } \cup { busyPath, errorReportPath }

existsAsync(fs, path) == fs[path] # "none"

-----------------------------------------------------------------------------
(* Rendition Planner: lines 537-575 and 618-635 of createStreaming *)

PixelW(d) == IF d.video THEN d.w ELSE 1
PixelH(d) == IF d.video THEN d.h ELSE 1

hasDesktopVideo(fs) == existsAsync(fs, mpdPath) \/ existsAsync(fs, avPath)
hasMobile(fs) == existsAsync(fs, mobilePath)
hasSample(fs) == existsAsync(fs, samplePath)

\* Declines without the stereo_mode test
DeclinesFlatOnly(d, fs) ==
    \/ PixelH(d) > MaxPixelHeight
    \/ existsAsync(fs, busyPath)

\* h > 1100 || stereo_mode || busy.txt exists
Declines(d, fs) ==
    \/ PixelH(d) > MaxPixelHeight
    \/ (d.video /\ d.stereo)
    \/ existsAsync(fs, busyPath)

\* shouldSkipVideo without the two rules on the asset's classification
shouldSkipVideoAnyClass(d, p, r) ==
    \/ (4 * r.w > 500 * PixelW(d) /\ 4 * r.h > 5 * PixelH(d))
    \/ (p.hasDesktopVideo /\ r.h >= 480)
    \/ (p.hasMobile /\ r.h = 360)
    \/ (p.hasSample /\ r.h = 320)

\* shouldSkipVideo skipping a candidate that is too wide or too high
shouldSkipVideoEither(d, p, r) ==
    \/ (d.cls # "movie" /\ r.h = 1080)
    \/ (d.cls = "extra" /\ r.h > 480)
    \/ (4 * r.w > 500 * PixelW(d) \/ 4 * r.h > 5 * PixelH(d))
    \/ (p.hasDesktopVideo /\ r.h >= 480)
    \/ (p.hasMobile /\ r.h = 360)
    \/ (p.hasSample /\ r.h = 320)

\* p holds the three presence flags read at the start of the run.
\* streamW > w * 1.25 is 4 * streamW > 5 * w; widths of r are in hundredths.
shouldSkipVideo(d, p, r) ==
    \/ (d.cls # "movie" /\ r.h = 1080)
    \/ (d.cls = "extra" /\ r.h > 480)
    \/ (4 * r.w > 500 * PixelW(d) /\ 4 * r.h > 5 * PixelH(d))
    \/ (p.hasDesktopVideo /\ r.h >= 480)
    \/ (p.hasMobile /\ r.h = 360)
    \/ (p.hasSample /\ r.h = 320)

videoCount(d, p) ==
    IF ~d.video THEN 0
    ELSE Cardinality({ i \in DOMAIN resolutions : ~shouldSkipVideo(d, p, resolutions[i]) })

groupedVideoCount(d, p) ==
    videoCount(d, p) - (IF p.hasMobile \/ ~d.video THEN 0 ELSE 1)
                     - (IF p.hasSample \/ ~d.video THEN 0 ELSE 1)

audioIndex(d) == IF d.nAudio > 0 THEN 0 ELSE -1

\* WantsAudio without the test of groupedVideoCount
WantsAudioAnyCount(d, p) ==
    audioIndex(d) >= 0 /\ ~p.hasDesktopVideo

\* line 574: a dedicated audio stream is wanted
WantsAudio(d, p) ==
    audioIndex(d) >= 0 /\ groupedVideoCount(d, p) # 1 /\ ~p.hasDesktopVideo

\* line 575
audioPathOf(d, p) == IF groupedVideoCount(d, p) = 0 THEN avPath ELSE audioOnlyPath

\* lines 622-627
videoPathOf(gvc, r) ==
    IF r.h < 480 THEN (IF r.h = 320 THEN samplePath ELSE mobilePath)
    ELSE IF gvc = 1 THEN avPath ELSE vPath(r.h)

Resolution(name) == CHOOSE r \in { resolutions[i] : i \in DOMAIN resolutions } : r.name = name

Planned(d, p) ==
    SelectSeq(resolutions, LAMBDA r : ~shouldSkipVideo(d, p, r))

\* the loop of lines 618-672: the renditions that become tasks, in table order
RECURSIVE TaskList(_, _, _)
TaskList(rs, gvc, fs) ==
    IF rs = << >> THEN << >>
    ELSE LET r == Head(rs)
             rest == TaskList(Tail(rs), gvc, fs)
         IN IF existsAsync(fs, videoPathOf(gvc, r)) THEN rest ELSE << r.name >> \o rest

\* dashVideos: the paths of the large renditions, present or not
RECURSIVE DashList(_, _)
DashList(rs, gvc) ==
    IF rs = << >> THEN << >>
    ELSE LET r == Head(rs)
         IN (IF r.h < 480 THEN << >> ELSE << videoPathOf(gvc, r) >>) \o DashList(Tail(rs), gvc)

NoPlan ==
    [ hasDesktopVideo |-> FALSE, hasMobile |-> FALSE, hasSample |-> FALSE,
      groupedVideoCount |-> 0, audioPath |-> NoPath, dashVideos |-> << >>,
      tasks |-> {} ]

MakePlan(d, fs) ==
    LET p == [ hasDesktopVideo |-> hasDesktopVideo(fs), hasMobile |-> hasMobile(fs),
               hasSample |-> hasSample(fs) ]
    IN [ hasDesktopVideo |-> p.hasDesktopVideo, hasMobile |-> p.hasMobile,
         hasSample |-> p.hasSample,
         groupedVideoCount |-> groupedVideoCount(d, p),
         audioPath |-> IF WantsAudio(d, p) THEN audioPathOf(d, p) ELSE NoPath,
         dashVideos |-> << >>,
         tasks |-> {} ]

-----------------------------------------------------------------------------
(* The whole state as one record, so that a handler is an operator from    *)
(* state to state and an action applies one handler.                      *)

\* The step had no catch handler of a video task
NoRetry == [task |-> "none", mode |-> "none", cause |-> "none", reached |-> 0,
            tries |-> 0, to |-> "none"]

Cur ==
    [ src |-> src, run |-> run, pc |-> pc, files |-> files, dirExists |-> dirExists,
      plan |-> plan, audioTry |-> audioTry, videoQueue |-> videoQueue,
      redoQueue |-> redoQueue, running |-> running, tries |-> tries, acts |-> acts,
      timers |-> timers, settled |-> settled, err |-> err, progress |-> progress,
      spawned |-> spawned, renamed |-> renamed, clean |-> clean, prevOk |-> prevOk,
      aborted |-> aborted, succeeded |-> succeeded, failed |-> failed,
      budget |-> budget, reports |-> reports, lastRetry |-> NoRetry,
      dispatched |-> << >> ]

Becomes(n) ==
    /\ src' = n.src /\ run' = n.run /\ pc' = n.pc /\ files' = n.files
    /\ dirExists' = n.dirExists /\ plan' = n.plan /\ audioTry' = n.audioTry
    /\ videoQueue' = n.videoQueue /\ redoQueue' = n.redoQueue /\ running' = n.running
    /\ tries' = n.tries /\ acts' = n.acts /\ timers' = n.timers /\ settled' = n.settled
    /\ err' = n.err /\ progress' = n.progress /\ spawned' = n.spawned
    /\ renamed' = n.renamed /\ clean' = n.clean /\ prevOk' = n.prevOk
    /\ aborted' = n.aborted /\ succeeded' = n.succeeded /\ failed' = n.failed
    /\ budget' = n.budget /\ reports' = n.reports
    /\ lastRetry' = n.lastRetry /\ dispatched' = n.dispatched

NoErr == [kind |-> "none", of |-> "none"]
ExitErr(name) == [kind |-> "exit", of |-> name]       \* ProcessError / spawn error
RenameErr(name) == [kind |-> "rename", of |-> name]   \* rejection of fs rename()
TypeErr == [kind |-> "TypeError", of |-> "audio"]

\* A failed attempt of a task reaches its catch handler: cause is "exit" (the
\* process failed) or "rename"; reached is the percentage the task had
\* reported last before its process ended (tenths of a percent)
Caught(s, task, mode, cause, reached) ==
    [s EXCEPT !.lastRetry = [task |-> task, mode |-> mode, cause |-> cause,
                             reached |-> reached, tries |-> 0, to |-> "none"]]

\* The catch handler has raised task.tries and sends the task to `to`:
\* "pending" (videoQueue), "redo" (redoQueue) or "abort" (cleanUpAndFail)
Decided(s, to) ==
    [s EXCEPT !.lastRetry.tries = s.tries[s.lastRetry.task], !.lastRetry.to = to]

\* A failure injected by the environment: it uses up budget and ends `clean`.
Fault(s) == [s EXCEPT !.budget = @ - 1, !.clean = FALSE]

-----------------------------------------------------------------------------
(* Activations: the transcoder processes of video tasks and their         *)
(* follow-up renames.  st = "run": the process is alive and task.process  *)
(* refers to it; "stale": alive, task.process no longer refers to it;     *)
(* "killed": alive and has been sent kill(); "rename": the process exited *)
(* with code 0 and rename(tmp, final) is under way.                       *)

Act(t, mode, st) == [t |-> t, mode |-> mode, st |-> st]
BagAdd(b, e) == b (+) SetToBag({e})
BagDel(b, e) == b (-) SetToBag({e})
Alive(a) == a.st \in {"run", "stale", "killed"}

\* every copy of e in b becomes a copy of f
Retag(b, e, f) ==
    IF ~BagIn(e, b) THEN b
    ELSE LET n == CopiesIn(e, b)
             rest == [x \in (DOMAIN b) \ {e} |-> b[x]]
         IN rest (+) [x \in {f} |-> n]

\* task.process is overwritten or set to undefined
Unref(b, t) ==
    Retag(Retag(b, Act(t, "par", "run"), Act(t, "par", "stale")),
          Act(t, "redo", "run"), Act(t, "redo", "stale"))

\* task.process.kill() for a task whose handle refers to a live process
Kill(b, t) ==
    Retag(Retag(b, Act(t, "par", "run"), Act(t, "par", "killed")),
          Act(t, "redo", "run"), Act(t, "redo", "killed"))

InFlight(b) == SumOver(b, { a \in DOMAIN b : Alive(a) })

-----------------------------------------------------------------------------
(* Progress Aggregator: videoProgress(data, stream, name, done, progress) *)
(* data is what the two regular expressions can find in the text:         *)
(*   [kind |-> "pct",  v |-> hundredths of a percent]   "task..., 12.34 %" *)
(*   [kind |-> "time", v |-> seconds]                   "time=00:01:40"    *)
(*   [kind |-> "none", v |-> 0]                         anything else      *)
(* The starts map and the status line depend on the clock and are written *)
(* only, never read by the scheduler; they are left out.  Of a speed only  *)
(* its kind is kept: "redo" for the sentinel -1, "rate" for a quotient of  *)
(* media time and elapsed time.                                           *)

NoData == [kind |-> "none", v |-> 0]

MapGet(m, k, dflt) == IF k \in DOMAIN m THEN m[k] ELSE dflt
MapSet(m, k, v) == [x \in (DOMAIN m) \cup {k} |-> IF x = k THEN v ELSE m[x]]

\* toNumber(percentStr) rounded to 0.1, in tenths of a percent
PercentOf(data, duration) ==
    CASE data.kind = "pct"  -> RoundDiv(data.v, 10)
      [] data.kind = "time" -> RoundDiv(data.v * 100000 * 10, duration)
      [] OTHER -> 0

\* videoProgress storing the default '0' of percentStr when no token is found
videoProgressDefaultZero(pr, data, stream, name, done, dur) ==
    IF ~(stream = 0 \/ done) THEN pr
    ELSE
      LET duration == IF name = "320p" THEN SampleDuration ELSE dur
          errors1 == IF done /\ stream > 0
                     THEN MapSet(pr.errors, name, MapGet(pr.errors, name, 0) + 1)
                     ELSE pr.errors
          percent == IF stream < 0 THEN -10
                     ELSE IF done THEN 1000
                     ELSE Min(PercentOf(data, duration), 999)
          lastPercent == MapGet(pr.percent, name, -10)
      IN IF lastPercent # percent
         THEN [percent |-> MapSet(pr.percent, name, percent), errors |-> errors1,
               speed |-> MapSet(pr.speed, name, IF stream < 0 THEN "redo" ELSE "rate")]
         ELSE [percent |-> pr.percent, errors |-> errors1, speed |-> pr.speed]

videoProgress(pr, data, stream, name, done, dur) ==
    IF ~(stream = 0 \/ done) THEN pr     \* progress.readFromError is never set
    ELSE
      LET duration == IF name = "320p" THEN SampleDuration ELSE dur
          matched == data.kind # "none"
          errors1 == IF done /\ stream > 0
                     THEN MapSet(pr.errors, name, MapGet(pr.errors, name, 0) + 1)
                     ELSE pr.errors
          percent == IF stream < 0 THEN -10
                     ELSE IF done THEN 1000
                     ELSE Min(PercentOf(data, duration), 999)
          lastPercent == MapGet(pr.percent, name, -10)
      IN IF (matched \/ (done /\ stream <= 0)) /\ lastPercent # percent
         THEN [percent |-> MapSet(pr.percent, name, percent), errors |-> errors1,
               speed |-> MapSet(pr.speed, name, IF stream < 0 THEN "redo" ELSE "rate")]
         ELSE [percent |-> pr.percent, errors |-> errors1, speed |-> pr.speed]

NoProgress == [percent |-> << >>, errors |-> << >>, speed |-> << >>]

-----------------------------------------------------------------------------
(* Task Scheduler: the promise executor of lines 676-754 *)

TaskPath(s, task) == videoPathOf(s.plan.groupedVideoCount, Resolution(task))

\* startTask spawning two transcoders for the task instead of one
startTaskTwice(s, task, mode) ==
    [s EXCEPT !.acts = BagAdd(BagAdd(Unref(@, task), Act(task, mode, "stale")),
                              Act(task, mode, "run")),
              !.files[tmp(TaskPath(s, task))] = "partial",
              !.spawned[task] = @ + 2,
              !.dispatched = Append(@, task)]

\* startTask: spawn('ffmpeg', task.args); ffmpeg (re)creates its output file,
\* which is tmp(task.videoPath)
startTask(s, task, mode) ==
    [s EXCEPT !.acts = BagAdd(Unref(@, task), Act(task, mode, "run")),
              !.files[tmp(TaskPath(s, task))] = "partial",
              !.spawned[task] = @ + 1,
              !.dispatched = Append(@, task)]

\* resolve() of the scheduler promise; a settled promise stays as it is
resolve(s) ==
    IF s.settled = "pending" THEN [s EXCEPT !.settled = "resolved"] ELSE s

\* reject(err): createStreaming, awaiting the promise, throws err
reject(s, e) ==
    IF s.settled = "pending"
    THEN [s EXCEPT !.settled = "rejected", !.err = e, !.pc = "threw"]
    ELSE s

\* videoQueue.pop()
PopTask(q) == [task |-> q[Len(q)], rest |-> SubSeq(q, 1, Len(q) - 1)]

\* videoQueue.splice(0, 0, task)
Requeue(q, task) == << task >> \o q

\* checkQueue resolving as soon as both queues are empty, whatever is running
RECURSIVE checkQueueEager(_)
checkQueueEager(s) ==
    IF s.running < simultaneousMax /\ Len(s.videoQueue) > 0 THEN
        LET p == PopTask(s.videoQueue)
            s1 == [s EXCEPT !.videoQueue = p.rest, !.running = @ + 1]
        IN checkQueueEager(startTask(s1, p.task, "par"))
    ELSE IF s.running = 0 /\ Len(s.redoQueue) > 0 THEN
        LET task == Head(s.redoQueue)
        IN startTask([s EXCEPT !.redoQueue = Tail(@)], task, "redo")
    ELSE IF Len(s.videoQueue) = 0 /\ Len(s.redoQueue) = 0 THEN resolve(s)
    ELSE s

\* checkQueue without the call of itself that follows the start of a task
checkQueueOnce(s) ==
    IF s.running < simultaneousMax /\ Len(s.videoQueue) > 0 THEN
        LET p == PopTask(s.videoQueue)
            s1 == [s EXCEPT !.videoQueue = p.rest, !.running = @ + 1]
        IN startTask(s1, p.task, "par")
    ELSE IF s.running = 0 /\ Len(s.redoQueue) > 0 THEN
        LET task == Head(s.redoQueue)
        IN startTask([s EXCEPT !.redoQueue = Tail(@)], task, "redo")
    ELSE IF s.running = 0 THEN resolve(s)
    ELSE s

RECURSIVE checkQueue(_)
checkQueue(s) ==
    IF s.running < simultaneousMax /\ Len(s.videoQueue) > 0 THEN
        LET p == PopTask(s.videoQueue)
            s1 == [s EXCEPT !.videoQueue = p.rest, !.running = @ + 1]
        IN checkQueue(startTask(s1, p.task, "par"))
    ELSE IF s.running = 0 /\ Len(s.redoQueue) > 0 THEN
        LET task == Head(s.redoQueue)
        IN startTask([s EXCEPT !.redoQueue = Tail(@)], task, "redo")
    ELSE IF s.running = 0 THEN resolve(s)
    ELSE s

\* cleanUpAndFail(err): the work is put off with setTimeout
cleanUpAndFail(s, e) ==
    [s EXCEPT !.timers = Append(@, e), !.aborted = TRUE]

RECURSIVE KillAll(_, _)
KillAll(b, ts) ==
    IF ts = {} THEN b
    ELSE LET t == CHOOSE x \in ts : TRUE IN KillAll(Kill(b, t), ts \ {t})

\* the timeout of cleanUpAndFail: lines 684-692
FailTimeout(s) ==
    LET q == s.videoQueue \o s.redoQueue
        s1 == [s EXCEPT !.timers = Tail(@), !.videoQueue = q,
                        !.acts = KillAll(@, SeqSet(q))]
    IN reject(s1, Head(s.timers))

\* RetryInParallel with the attempt comparisons turned round
RetryInParallelInverted(n, percentDone) ==
    (4 * n > 3 * maxTries /\ percentDone < 100) \/ 2 * n > maxTries

\* RetryInParallel with the thresholds rounded down to whole attempts
RetryInParallelFloored(n, percentDone) ==
    (n < (3 * maxTries) \div 4 /\ percentDone < 100) \/ n < maxTries \div 2

\* line 719, with tries already incremented; percentDone in tenths of a percent
RetryInParallel(n, percentDone) ==
    (4 * n < 3 * maxTries /\ percentDone < 100) \/ 2 * n < maxTries

\* progress.percent?.get(task.name) || 0
PercentDone(pr, task) == MapGet(pr.percent, task, 0)

\* the catch handler of a parallel task: lines 713-729
ParCatch(s, task) ==
    LET percentDone == PercentDone(s.progress, task)
        s1 == [s EXCEPT !.acts = Unref(@, task), !.running = @ - 1,
                        !.tries[task] = @ + 1,
                        !.progress = videoProgress(@, NoData, -1, task, TRUE, s.src.duration)]
    IN IF RetryInParallel(s1.tries[task], percentDone)
       THEN checkQueue(Decided([s1 EXCEPT !.videoQueue = Requeue(@, task)], "pending"))
       ELSE checkQueue(Decided([s1 EXCEPT !.redoQueue = Append(@, task)], "redo"))

\* RedoCatch that still retries a task whose tries have reached maxTries
RedoCatchLenient(s, task, e) ==
    LET s1 == [s EXCEPT !.tries[task] = @ + 1]
    IN IF s1.tries[task] <= maxTries
       THEN checkQueue(Decided([s1 EXCEPT
                !.acts = Unref(@, task),
                !.redoQueue = Append(@, task),
                !.progress = videoProgress(@, NoData, -1, task, TRUE, s.src.duration)],
                "redo"))
       ELSE cleanUpAndFail(Decided(s1, "abort"), e)

\* RedoCatch that gives the task up without a word once its tries are used up
RedoCatchSilent(s, task, e) ==
    LET s1 == [s EXCEPT !.tries[task] = @ + 1]
    IN IF s1.tries[task] < maxTries
       THEN checkQueue(Decided([s1 EXCEPT
                !.acts = Unref(@, task),
                !.redoQueue = Append(@, task),
                !.progress = videoProgress(@, NoData, -1, task, TRUE, s.src.duration)],
                "redo"))
       ELSE Decided(s1, "abort")

\* the catch handler of a redo task: lines 738-747
RedoCatch(s, task, e) ==
    LET s1 == [s EXCEPT !.tries[task] = @ + 1]
    IN IF s1.tries[task] < maxTries
       THEN checkQueue(Decided([s1 EXCEPT
                !.acts = Unref(@, task),
                !.redoQueue = Append(@, task),
                !.progress = videoProgress(@, NoData, -1, task, TRUE, s.src.duration)],
                "redo"))
       ELSE cleanUpAndFail(Decided(s1, "abort"), e)

-----------------------------------------------------------------------------
(* Manifest Assembler and the end of createStreaming: lines 756-814 *)

\* AfterVideo with the multiplexer writing straight to the manifest's final path
AfterVideoInPlace(s) ==
    IF s.plan.groupedVideoCount > 1
    THEN [s EXCEPT !.pc = "mux", !.files[mpdPath] = "partial",
                   !.spawned["mux"] = @ + 1]
    ELSE [s EXCEPT !.pc = "returnedTrue"]

\* AfterVideo making a manifest for a single large rendition too
AfterVideoAnyLarge(s) ==
    IF s.plan.groupedVideoCount >= 1
    THEN [s EXCEPT !.pc = "mux", !.files[tmp(mpdPath)] = "partial",
                   !.spawned["mux"] = @ + 1]
    ELSE [s EXCEPT !.pc = "returnedTrue"]

\* what follows the scheduler (or the audio step when there is no video)
AfterVideo(s) ==
    IF s.plan.groupedVideoCount > 1
    THEN [s EXCEPT !.pc = "mux", !.files[tmp(mpdPath)] = "partial",
                   !.spawned["mux"] = @ + 1]
    ELSE [s EXCEPT !.pc = "returnedTrue"]

\* catch of lines 789-793
ManifestCatch(s, e) ==
    [s EXCEPT !.files[errorReportPath] = "complete", !.pc = "threw", !.err = e]

\* the await of line 676 resumes once the promise is resolved
Resume(s) ==
    IF s.pc = "sched" /\ s.settled = "resolved" THEN AfterVideo(s) ELSE s

\* lines 612-676: build the task list and run the executor
VideoStage(s) ==
    IF ~s.src.video THEN AfterVideo(s)
    ELSE
      LET p == s.plan
          gvc == p.groupedVideoCount
          rs == Planned(s.src, p)
          q == TaskList(rs, gvc, s.files)
          s1 == [s EXCEPT !.pc = "sched",
                          !.plan.dashVideos = DashList(rs, gvc),
                          !.plan.tasks = SeqSet(q),
                          !.videoQueue = q, !.redoQueue = << >>, !.running = 0,
                          !.settled = "pending"]
      IN Resume(checkQueue(s1))

-----------------------------------------------------------------------------
(* The start of createStreaming and the audio-stream step: lines 537-609 *)

\* one pass of the loop body of lines 589-590: safeUnlink, then spawn
SpawnAudio(s) ==
    [s EXCEPT !.pc = "audio", !.files[tmp(s.plan.audioPath)] = "partial",
              !.spawned["audio"] = @ + 1]

\* lines 578 and 603: the track index in args[4] ('0:a:' + index) that pass i
\* of the loop hands to ffmpeg
audioTrack(d, i) ==
    IF i = 0 THEN audioIndex(d)
    ELSE IF audioIndex(d) # 0 /\ i - 1 = audioIndex(d) THEN 0 ELSE i

\* AudioCatch that gives up one failure later
AudioCatchOneMore(s, e) ==
    IF s.audioTry = s.src.nAudio
    THEN [s EXCEPT !.files[errorReportPath] = "complete", !.pc = "threw", !.err = e]
    ELSE [s EXCEPT !.pc = "audio", !.files[tmp(s.plan.audioPath)] = "partial",
                   !.spawned["audio"] = @ + 1, !.audioTry = @ + 1]

\* catch of lines 595-604
AudioCatch(s, e) ==
    IF s.audioTry = s.src.nAudio - 1
    THEN [s EXCEPT !.files[errorReportPath] = "complete", !.pc = "threw", !.err = e]
    ELSE SpawnAudio([s EXCEPT !.audioTry = @ + 1])

\* NeedsAudioStep without the look at the output directory
NeedsAudioStepBlind(p, fs) == p.audioPath # NoPath

\* lines 574-577: the audio stream is wanted and its file is not there yet
NeedsAudioStep(p, fs) == p.audioPath # NoPath /\ ~existsAsync(fs, p.audioPath)

\* lines 537-577: createStreaming up to its first await of a process
StartRun(s) ==
    IF Declines(s.src, s.files) THEN [s EXCEPT !.pc = "returnedFalse"]
    ELSE
      LET p == MakePlan(s.src, s.files)
          s1 == [s EXCEPT !.dirExists = TRUE, !.plan = p]
      IN IF p.hasDesktopVideo /\ p.hasMobile /\ p.hasSample
         THEN [s EXCEPT !.pc = "returnedFalse"]
         ELSE IF s.src.nAudio = 0     \* audios[0] is undefined: line 569 throws
         THEN [s1 EXCEPT !.pc = "threw", !.err = TypeErr]
         ELSE IF NeedsAudioStep(p, s.files)
         THEN SpawnAudio([s1 EXCEPT !.audioTry = 0])
         ELSE VideoStage(s1)

\* rename(from, to) that succeeded
Move(fs, from, to) == [fs EXCEPT ![to] = fs[from], ![from] = "none"]

\* the process wrote its last byte
Complete(fs, f) == IF fs[f] = "none" THEN fs ELSE [fs EXCEPT ![f] = "complete"]

-----------------------------------------------------------------------------
(* Actions *)

\* createStreaming is called and runs up to its first spawn
Start ==
    /\ pc = "start"
    /\ Becomes(StartRun(Cur))

\* the audio transcoder exits with code 0: rename follows (line 592)
AudioExitOk ==
    /\ pc = "audio"
    /\ Becomes([Cur EXCEPT !.pc = "audioRename",
                           !.files = Complete(@, tmp(plan.audioPath))])

\* the audio transcoder fails
AudioExitFail ==
    /\ pc = "audio" /\ budget > 0
    /\ Becomes(AudioCatch(Fault(Cur), ExitErr("audio")))

AudioRenameOk ==
    /\ pc = "audioRename" /\ existsAsync(files, tmp(plan.audioPath))
    /\ Becomes(VideoStage([Cur EXCEPT
            !.files = Move(@, tmp(plan.audioPath), plan.audioPath),
            !.renamed["audio"] = @ + 1]))

AudioRenameFail ==
    /\ pc = "audioRename" /\ budget > 0
    /\ Becomes(AudioCatch(Fault(Cur), RenameErr("audio")))

\* a chunk of a transcoder's stdout: "5.04 %", "50.00 %", "123.45 %",
\* "out_time=00:01:40.000000" of ffmpeg -progress, and text with no token
ProgressInputs ==
    { [kind |-> "pct", v |-> 504], [kind |-> "pct", v |-> 5000],
      [kind |-> "pct", v |-> 12345], [kind |-> "time", v |-> 100], NoData }

\* a chunk of a transcoder's stderr: with a time token, or without any
StderrInputs == { [kind |-> "time", v |-> 100], NoData }

Progress(a, data) ==
    /\ BagIn(a, acts) /\ Alive(a) /\ reports > 0
    /\ Becomes([Cur EXCEPT
            !.reports = @ - 1,
            !.progress = videoProgress(@, data, 0, a.t, FALSE, src.duration)])

\* monitorProcess, stderr 'data': markTime(data, 1)
StderrData(a, data) ==
    /\ BagIn(a, acts) /\ Alive(a) /\ reports > 0
    /\ Becomes([Cur EXCEPT
            !.reports = @ - 1,
            !.progress = videoProgress(@, data, 1, a.t, FALSE, src.duration)])

\* monitorProcess 'exit' with code 0, then the then-handler starts rename
TaskExitOk(a) ==
    /\ BagIn(a, acts) /\ a.st \in {"run", "stale"}
    /\ Becomes([Cur EXCEPT
            !.progress = videoProgress(@, NoData, 0, a.t, TRUE, src.duration),
            !.files = Complete(@, tmp(TaskPath(Cur, a.t))),
            !.succeeded = @ \cup {a.t},
            !.acts = BagAdd(BagDel(@, a), Act(a.t, a.mode, "rename"))])

\* monitorProcess 'error', or 'exit' with a code other than 0, then the catch handler
OnFail(s, a) ==
    LET s0 == Caught(s, a.t, a.mode, "exit", MapGet(s.progress.percent, a.t, 0))
        s1 == [s0 EXCEPT
                 !.progress = videoProgress(@, NoData, -1, a.t, TRUE, s.src.duration),
                 !.failed[a.t] = @ + 1,
                 !.acts = BagDel(@, a)]
    IN Resume(IF a.mode = "par" THEN ParCatch(s1, a.t)
              ELSE RedoCatch(s1, a.t, ExitErr(a.t)))

\* the process fails by itself, or ends because it was sent kill()
TaskExitFail(a) ==
    /\ BagIn(a, acts) /\ Alive(a)
    /\ budget > 0 \/ a.st = "killed"
    /\ Becomes(OnFail(IF a.st = "killed" THEN Cur ELSE Fault(Cur), a))

\* rename(tmp(task.videoPath), task.videoPath) settles; ok tells how.
\* Parallel task: finally { --running; checkQueue() }, the rejection is not handled.
\* Redo task: finally { checkQueue() }, and a rejection reaches the catch handler.
OnRenamed(s, a, ok) ==
    LET path == TaskPath(s, a.t)
        s1 == [s EXCEPT !.acts = BagDel(@, a),
                        !.files = IF ok THEN Move(@, tmp(path), path) ELSE @,
                        !.renamed[a.t] = IF ok THEN @ + 1 ELSE @]
    IN Resume(IF a.mode = "par"
              THEN checkQueue([s1 EXCEPT !.running = @ - 1])
              ELSE IF ok THEN checkQueue(s1)
              ELSE RedoCatch(Caught(checkQueue(s1), a.t, a.mode, "rename",
                                    MapGet(s.progress.percent, a.t, 0)),
                             a.t, RenameErr(a.t)))

TaskRenameOk(a) ==
    /\ BagIn(a, acts) /\ a.st = "rename"
    /\ existsAsync(files, tmp(TaskPath(Cur, a.t)))
    /\ Becomes(OnRenamed(Cur, a, TRUE))

TaskRenameFail(a) ==
    /\ BagIn(a, acts) /\ a.st = "rename"
    /\ budget > 0 \/ ~existsAsync(files, tmp(TaskPath(Cur, a.t)))
    /\ Becomes(OnRenamed(Fault(Cur), a, FALSE))

\* the timeout set by cleanUpAndFail fires
FailTimer ==
    /\ timers # << >>
    /\ Becomes(FailTimeout(Cur))

\* the multiplexer exits with code 0: rename follows (line 787)
MuxExitOk ==
    /\ pc = "mux"
    /\ Becomes([Cur EXCEPT !.pc = "muxRename", !.files = Complete(@, tmp(mpdPath))])

MuxExitFail ==
    /\ pc = "mux" /\ budget > 0
    /\ Becomes(ManifestCatch(Fault(Cur), ExitErr("mux")))

MuxRenameOk ==
    /\ pc = "muxRename" /\ existsAsync(files, tmp(mpdPath))
    /\ Becomes([Cur EXCEPT !.pc = "fix", !.files = Move(@, tmp(mpdPath), mpdPath),
                           !.renamed["mux"] = @ + 1])

MuxRenameFail ==
    /\ pc = "muxRename" /\ budget > 0
    /\ Becomes(ManifestCatch(Fault(Cur), RenameErr("mux")))

\* lines 796-804: the BaseURL elements are rewritten in place
FixManifest ==
    /\ pc = "fix"
    /\ Becomes([Cur EXCEPT !.pc = "returnedTrue", !.files[mpdPath] = "fixed"])

Zero == [n \in ProcNames |-> 0]
NoTries == [n \in TaskNames |-> 0]

\* the caller's next sweep calls createStreaming on the same asset again
Rerun ==
    /\ run = 1 /\ pc \in {"returnedTrue", "returnedFalse", "threw"}
    /\ acts = EmptyBag /\ timers = << >>
    /\ Becomes([Cur EXCEPT
            !.run = 2, !.pc = "start", !.plan = NoPlan, !.audioTry = 0,
            !.videoQueue = << >>, !.redoQueue = << >>, !.running = 0,
            !.tries = NoTries, !.settled = "none", !.err = NoErr,
            !.progress = NoProgress, !.spawned = Zero, !.renamed = Zero,
            !.aborted = FALSE, !.succeeded = {}, !.failed = NoTries,
            !.prevOk = (pc = "returnedTrue" /\ clean)])

ActSet == [t : TaskNames, mode : {"par", "redo"}, st : {"run", "stale", "killed", "rename"}]

Next ==
    \/ Start
    \/ AudioExitOk \/ AudioExitFail \/ AudioRenameOk \/ AudioRenameFail
    \/ \E a \in ActSet : \E data \in ProgressInputs : Progress(a, data)
    \/ \E a \in ActSet : \E data \in StderrInputs : StderrData(a, data)
    \/ \E a \in ActSet : TaskExitOk(a)
    \/ \E a \in ActSet : TaskExitFail(a)
    \/ \E a \in ActSet : TaskRenameOk(a)
    \/ \E a \in ActSet : TaskRenameFail(a)
    \/ FailTimer
    \/ MuxExitOk \/ MuxExitFail \/ MuxRenameOk \/ MuxRenameFail \/ FixManifest
    \/ Rerun

-----------------------------------------------------------------------------
(* Initial states *)

Classes == {"movie", "tv", "extra"}
Geometries == { << 1920, 1080 >>, << 640, 360 >>, << 3840, 2160 >>, << 480, 270 >> }
AudioCounts == {0, 1, 2}
Duration == 600000

Source(g, st, c, n) ==
    [video |-> TRUE, w |-> g[1], h |-> g[2], stereo |-> st, cls |-> c,
     nAudio |-> n, duration |-> Duration]

Sources ==
    { Source(g, st, c, n) : g \in Geometries, st \in BOOLEAN, c \in Classes, n \in AudioCounts }
    \cup
    { [video |-> FALSE, w |-> 1, h |-> 1, stereo |-> FALSE, cls |-> c,
       nAudio |-> 1, duration |-> Duration] : c \in Classes }

\* what the output directory may hold when the asset is first visited
Dirs ==
    { {}, {busyPath}, {mobilePath, samplePath}, {mpdPath, mobilePath, samplePath},
      {vPath(1080), vPath(720)}, {mpdPath}, {mobilePath} }

\* An asset, its output directory and what the environment does to the run
Scenario(d, present, b, r) == [src |-> d, present |-> present, budget |-> b, reports |-> r]

Scenarios ==
    { Scenario(d, present, MaxFailures, 0) : d \in Sources, present \in Dirs }
    \cup
    { Scenario(Source(<< 1920, 1080 >>, FALSE, "movie", 1), {mpdPath, mobilePath},
               maxTries, MaxReports) }

\* Assets with few renditions left to produce, and an environment that fails often
RetryScenarios ==
    { Scenario(Source(<< 1920, 1080 >>, FALSE, "extra", 1), {}, MaxRetryFailures, 0),
      Scenario(Source(<< 1920, 1080 >>, FALSE, "tv", 2), {mobilePath, samplePath},
               MaxRetryFailures, 0),
      Scenario(Source(<< 1920, 1080 >>, FALSE, "movie", 1), {mpdPath, mobilePath},
               maxTries, MaxReports) }

DirFiles(present) ==
    [f \in AllFiles |-> IF f \notin present THEN "none"
                        ELSE IF f = mpdPath THEN "fixed" ELSE "complete"]

InitWith(S) ==
    /\ \E sc \in S :
         /\ src = sc.src
         /\ files = DirFiles(sc.present) /\ dirExists = (sc.present # {})
         /\ budget = sc.budget /\ reports = sc.reports
    /\ run = 1 /\ pc = "start" /\ plan = NoPlan /\ audioTry = 0
    /\ videoQueue = << >> /\ redoQueue = << >> /\ running = 0
    /\ tries = NoTries /\ acts = EmptyBag /\ timers = << >>
    /\ settled = "none" /\ err = NoErr /\ progress = NoProgress
    /\ spawned = Zero /\ renamed = Zero
    /\ clean = TRUE /\ prevOk = FALSE /\ aborted = FALSE
    /\ succeeded = {} /\ failed = NoTries
    /\ lastRetry = NoRetry /\ dispatched = << >>

Init == InitWith(Scenarios)
InitRetry == InitWith(RetryScenarios)

Spec == Init /\ [][Next]_vars
SpecRetry == InitRetry /\ [][Next]_vars

InitAll == InitWith(Scenarios \cup RetryScenarios)
SpecAll == InitAll /\ [][Next]_vars

\* Node runs the callback of a process that has exited, of a rename that has
\* completed and of a timeout that is due: some such step is taken in the end.
Settling ==
    \/ \E a \in ActSet : TaskExitOk(a) \/ TaskExitFail(a)
    \/ \E a \in ActSet : TaskRenameOk(a) \/ TaskRenameFail(a)
    \/ FailTimer

\* Two renditions with an audio stream and a manifest, and a single rendition
\* that reports progress; either can use up the tries of a task.
LiveScenarios ==
    { Scenario(Source(<< 1920, 1080 >>, FALSE, "tv", 2), {mobilePath, samplePath},
               maxTries, 0),
      Scenario(Source(<< 1920, 1080 >>, FALSE, "movie", 1), {mpdPath, mobilePath},
               maxTries, MaxReports) }

InitLive == InitWith(LiveScenarios)
SpecLive == InitLive /\ [][Next]_vars /\ WF_vars(Settling)

-----------------------------------------------------------------------------
(* The queue discipline of checkQueue on its own: videoQueue.splice(0, 0,  *)
(* task) of line 720 and videoQueue.pop() of line 704, applied to pending  *)
(* queues in which tasks are waiting.  The scheduler of createStreaming    *)
(* never holds such a queue when a task is requeued, as it plans at most   *)
(* five tasks for six slots.                                               *)

MaxWaiting == 3         \* tasks waiting in the pending queue

RECURSIVE QueuesOver(_, _)
QueuesOver(S, n) ==
    IF n = 0 THEN { << >> }
    ELSE LET shorter == QueuesOver(S, n - 1)
         IN shorter \cup { Append(q, x) : q \in shorter, x \in S }

\* pending queues of up to MaxWaiting tasks, no task twice
WaitingQueues ==
    { q \in QueuesOver(TaskNames, MaxWaiting) : Cardinality(SeqSet(q)) = Len(q) }

InitQueue ==
    /\ videoQueue \in WaitingQueues
    /\ \E sc \in { Scenario(Source(<< 1920, 1080 >>, FALSE, "movie", 1), {}, 0, 0) } :
         /\ src = sc.src
         /\ files = DirFiles(sc.present) /\ dirExists = (sc.present # {})
         /\ budget = sc.budget /\ reports = sc.reports
    /\ run = 1 /\ pc = "sched" /\ plan = NoPlan /\ audioTry = 0
    /\ redoQueue = << >> /\ running = 0
    /\ tries = NoTries /\ acts = EmptyBag /\ timers = << >>
    /\ settled = "pending" /\ err = NoErr /\ progress = NoProgress
    /\ spawned = Zero /\ renamed = Zero
    /\ clean = TRUE /\ prevOk = FALSE /\ aborted = FALSE
    /\ succeeded = {} /\ failed = NoTries
    /\ lastRetry = NoRetry /\ dispatched = << >>

\* line 720: the catch handler of a parallel task puts the task back
RequeueStep(task) ==
    /\ lastRetry = NoRetry /\ task \notin SeqSet(videoQueue)
    /\ videoQueue' = Requeue(videoQueue, task)
    /\ lastRetry' = [NoRetry EXCEPT !.task = task, !.mode = "par", !.to = "pending"]
    /\ UNCHANGED << src, run, pc, files, dirExists, plan, audioTry, redoQueue, running,
                    tries, acts, timers, settled, err, progress, spawned, renamed,
                    clean, prevOk, aborted, succeeded, failed, budget, reports,
                    dispatched >>

\* line 704: checkQueue takes the next task to start
DispatchStep ==
    /\ lastRetry # NoRetry /\ videoQueue # << >>
    /\ videoQueue' = PopTask(videoQueue).rest
    /\ dispatched' = Append(dispatched, PopTask(videoQueue).task)
    /\ UNCHANGED << src, run, pc, files, dirExists, plan, audioTry, redoQueue, running,
                    tries, acts, timers, settled, err, progress, spawned, renamed,
                    clean, prevOk, aborted, succeeded, failed, budget, reports,
                    lastRetry >>

NextQueue ==
    \/ \E task \in TaskNames : RequeueStep(task)
    \/ DispatchStep

SpecQueue == InitQueue /\ [][NextQueue]_vars

-----------------------------------------------------------------------------
(* The planner on its own: createStreaming from its call to the start of   *)
(* the scheduler, for sources of many pixel sizes, with no failure.        *)

\* pixel_dimensions of sources: 16:9 and 4:3 HD, PAL and NTSC DVD, smaller
PlanGeometries ==
    { << 1920, 1080 >>, << 1440, 1080 >>, << 1280, 720 >>, << 960, 720 >>,
      << 720, 576 >>, << 720, 480 >>, << 640, 360 >>, << 480, 270 >> }

PlanScenarios ==
    { Scenario(Source(g, FALSE, c, 1), present, 0, 0) :
        g \in PlanGeometries, c \in Classes, present \in Dirs }

InitPlan == InitWith(PlanScenarios)

NextPlan == Start \/ AudioExitOk \/ AudioRenameOk

SpecPlan == InitPlan /\ [][NextPlan]_vars

-----------------------------------------------------------------------------
(* Vocabulary of the properties *)

\* how often task n stands in queue q
QueuedIn(q, n) == SeqCount(q, n)

\* the final path of planned task n is occupied
FinalPresent(n) == existsAsync(files, TaskPath(Cur, n))

\* a handler of this run ran (the step is not the caller starting the next run)
SameRun == run' = run

-----------------------------------------------------------------------------
(* C1 *)

\* C1: in every reachable state the number of transcoder processes spawned by
\* the scheduler and not yet exited, parallel and redo tasks counted together,
\* is at most simultaneousMax (6).
C1_ConcurrencyLimit == InFlight(acts) <= simultaneousMax

\* every planned rendition of a five-rendition asset is being transcoded at once
C1_Witness ==
    /\ InFlight(acts) = Len(resolutions)
    /\ Cardinality(plan.tasks) = Len(resolutions)

-----------------------------------------------------------------------------
(* C2 *)

\* C2: the manifest multiplexer is spawned at most once per run, and when it
\* has been spawned every planned video task's process has exited with code 0
\* and the audio stream, when one is wanted, is in place.
C2_ManifestAfterAll ==
    /\ spawned["mux"] <= 1
    /\ spawned["mux"] = 1 =>
          /\ plan.tasks \subseteq succeeded
          /\ plan.audioPath # NoPath => files[plan.audioPath] = "complete"

\* the multiplexer runs after a task that had failed on the way was retried
C2_Witness ==
    /\ pc = "mux" /\ spawned["mux"] = 1
    /\ Cardinality(plan.tasks) >= 2
    /\ \E n \in plan.tasks : failed[n] > 0

-----------------------------------------------------------------------------
(* C3 *)

\* C3: the file of a planned rendition is under its final name only by a
\* rename of its temp file made after its transcoder exited with code 0, that
\* rename is made exactly once per task, and nothing partial is ever under the
\* final name.
C3_RenameOnce ==
    \A n \in plan.tasks :
        /\ renamed[n] <= 1
        /\ files[TaskPath(Cur, n)] # "partial"
        /\ FinalPresent(n) => (renamed[n] = 1 /\ n \in succeeded)

-----------------------------------------------------------------------------
(* C4 *)

\* C4: no task is spawned more than maxTries (6) times in one run, and a task
\* whose process failed twice and then exited with code 0 has been spawned
\* exactly 3 times.
C4_SpawnBound ==
    \A n \in plan.tasks :
        /\ spawned[n] <= maxTries
        /\ (n \in succeeded /\ failed[n] = 2) => spawned[n] = 3

-----------------------------------------------------------------------------
(* C5 *)

\* C5: once a task's failure has exhausted its retries (cleanUpAndFail was
\* called) no process is spawned any more in that run, and once the timeout of
\* cleanUpAndFail has fired the run is rejected.
C5_NoSpawnAfterAbort ==
    [][(aborted /\ SameRun) =>
          /\ spawned' = spawned
          /\ (timers' = << >> => settled' = "rejected")]_vars

-----------------------------------------------------------------------------
(* C6 *)

\* C6: idempotence: when createStreaming is called again on the output
\* directory a run without any failure has returned true on, for the same
\* source and classification, it spawns no process at all.
C6_Idempotent ==
    (run = 2 /\ prevOk) => \A n \in ProcNames : spawned[n] = 0

\* the second call has returned on a directory whose audio stream and manifest
\* the first call made
C6_Witness ==
    /\ run = 2 /\ prevOk /\ pc \in {"returnedTrue", "returnedFalse"}
    /\ files[audioOnlyPath] = "complete" /\ files[mpdPath] = "fixed"

-----------------------------------------------------------------------------
(* C7 *)

\* C7: when the multiplexer process fails the run rejects with that error, the
\* error-report file is written, and the manifest's final path is neither
\* created nor modified (the multiplexer runs only when no manifest is there).
C7_ManifestFailure ==
    [][(pc = "mux" /\ pc' = "threw") =>
          /\ err' = ExitErr("mux")
          /\ files'[errorReportPath] = "complete"
          /\ files[mpdPath] = "none" /\ files'[mpdPath] = "none"]_vars

\* the multiplexer has failed for an asset with two or more large renditions
C7_Witness ==
    /\ pc = "threw" /\ err = ExitErr("mux") /\ spawned["mux"] = 1
    /\ plan.groupedVideoCount > 1

-----------------------------------------------------------------------------
(* C8 *)

\* C8: when busy.txt is in the asset's output directory, or the source video is
\* stereoscopic, or its pixel height exceeds 1100, createStreaming returns
\* false without spawning a process and without creating, renaming or
\* modifying any file or directory.
C8_Declines ==
    [][(pc = "start" /\ ( \/ files[busyPath] # "none"
                          \/ (src.video /\ src.stereo)
                          \/ (src.video /\ src.h > MaxPixelHeight) )) =>
          /\ pc' = "returnedFalse"
          /\ spawned' = spawned /\ renamed' = renamed /\ acts' = acts
          /\ files' = files /\ dirExists' = dirExists]_vars

\* a stereoscopic source was declined and its output directory still does not exist
C8_Witness ==
    /\ pc = "returnedFalse" /\ run = 1
    /\ src.video /\ src.stereo /\ src.h <= MaxPixelHeight
    /\ files[busyPath] = "none" /\ ~dirExists

-----------------------------------------------------------------------------
(* C9 *)

\* C9: the scheduler's promise is rejected only if the process of some single
\* task has failed maxTries (6) times, and it is resolved only when the process
\* of every planned task has exited with code 0.
C9_RejectOnlyExhausted ==
    /\ settled = "rejected" => \E n \in plan.tasks : failed[n] >= maxTries
    /\ settled = "resolved" => plan.tasks \subseteq succeeded

-----------------------------------------------------------------------------
(* C10 *)

\* C10: once the process of a task has exited with code 0 the task is not
\* spawned again and is not put into the pending or the redo queue during the
\* same run.
C10_SucceededIsFinal ==
    [][SameRun =>
          \A n \in succeeded :
              /\ spawned'[n] = spawned[n]
              /\ QueuedIn(videoQueue', n) <= QueuedIn(videoQueue, n)
              /\ QueuedIn(redoQueue', n) <= QueuedIn(redoQueue, n)]_vars

-----------------------------------------------------------------------------
(* Vocabulary of the retry properties *)

\* the catch handler of a parallel task has just handled a failure of its process
ParFailure == lastRetry.mode = "par" /\ lastRetry.cause = "exit"

\* the catch handler of a redo task has just handled a failure of its process
RedoFailure == lastRetry.mode = "redo" /\ lastRetry.cause = "exit"

\* 10 %, in tenths of a percent
TenPercent == 100

\* the task of lastRetry is back in the parallel pool: waiting, or started again
BackInPool ==
    \/ QueuedIn(videoQueue, lastRetry.task) > 0
    \/ BagIn(Act(lastRetry.task, "par", "run"), acts)

\* the task of lastRetry is in the redo queue, or started from it
InRedo ==
    \/ QueuedIn(redoQueue, lastRetry.task) > 0
    \/ BagIn(Act(lastRetry.task, "redo", "run"), acts)

-----------------------------------------------------------------------------
(* C11 *)

\* C11 as stated: a parallel task that fails having reported less than 10 %
\* goes back to the pending queue only while its attempt count, this failure
\* included, is below floor(0.75 * maxTries) = 4, and to the redo queue with a
\* count of 4 or more.
C11_FlooredThreshold ==
    (ParFailure /\ lastRetry.reached < TenPercent) =>
        IF lastRetry.tries < (3 * maxTries) \div 4
        THEN lastRetry.to = "pending" /\ BackInPool
        ELSE lastRetry.to = "redo" /\ InRedo

\* C11 amended: the threshold is 0.75 * maxTries = 4.5, not rounded down: the
\* task goes back to the pending queue with an attempt count of up to 4 and to
\* the redo queue with a count of 5 or more.
C11_Threshold ==
    (ParFailure /\ lastRetry.reached < TenPercent) =>
        IF 4 * lastRetry.tries < 3 * maxTries
        THEN lastRetry.to = "pending" /\ BackInPool
        ELSE lastRetry.to = "redo" /\ InRedo

\* a task that never reported progress has failed for the fourth time and was
\* started again in the parallel pool
C11_Witness ==
    /\ ParFailure /\ lastRetry.reached = 0 /\ lastRetry.tries = 4
    /\ lastRetry.to = "pending" /\ lastRetry.task \in SeqSet(dispatched)
    /\ ~aborted

-----------------------------------------------------------------------------
(* C12 *)

\* C12: a parallel task that fails after having reported 10 % or more, with an
\* attempt count (this failure included) of floor(0.5 * maxTries) = 3 or more,
\* is moved to the redo queue and not back to the pending queue: the progress
\* the task had reached when it failed is what the retry decision reads.
C12_ProgressDecides ==
    (ParFailure /\ lastRetry.reached >= TenPercent
                /\ lastRetry.tries >= maxTries \div 2) =>
        lastRetry.to = "redo" /\ InRedo /\ ~BackInPool

-----------------------------------------------------------------------------
(* C13 *)

\* C13: a parallel task whose attempt count (this failure included) is below
\* floor(0.5 * maxTries) = 3 goes back to the pending queue whatever progress
\* it had reached, and is not moved to the redo queue at that point.
C13_EarlyRetryInPool ==
    (ParFailure /\ lastRetry.tries < maxTries \div 2) =>
        lastRetry.to = "pending" /\ BackInPool /\ ~InRedo

\* a task that had reported 50 % or more has failed for the second time and
\* was started again in the parallel pool
C13_Witness ==
    /\ ParFailure /\ lastRetry.reached >= 5 * TenPercent /\ lastRetry.tries = 2
    /\ lastRetry.to = "pending" /\ lastRetry.task \in SeqSet(dispatched)

-----------------------------------------------------------------------------
(* C14 *)

\* C14: whenever the process of a redo-queue task is in flight, no other
\* transcoding process of the run is in flight and the pending queue is empty.
C14_RedoAlone ==
    (\E a \in DOMAIN acts : a.mode = "redo" /\ Alive(a)) =>
        InFlight(acts) = 1 /\ videoQueue = << >>

-----------------------------------------------------------------------------
(* C15 *)

\* C15: a task drawn from the redo queue whose process fails is appended back
\* to the redo queue when its attempt count after that failure is below
\* maxTries (6), and otherwise the pipeline is aborted (cleanUpAndFail is
\* called with the error of that failure); the handling of that failure
\* neither puts the task into the pending queue nor starts it in the pool.
C15_RedoFailure ==
    /\ [](RedoFailure =>
            IF lastRetry.tries < maxTries
            THEN lastRetry.to = "redo" /\ InRedo
            ELSE /\ lastRetry.to = "abort" /\ aborted
                 /\ timers # << >>
                 /\ timers[Len(timers)] = ExitErr(lastRetry.task))
    /\ [][RedoFailure' =>
            /\ QueuedIn(videoQueue', lastRetry'.task) <= QueuedIn(videoQueue, lastRetry'.task)
            /\ CopiesIn(Act(lastRetry'.task, "par", "run"), acts')
                 <= CopiesIn(Act(lastRetry'.task, "par", "run"), acts)]_vars

\* the redo task has failed for the last time allowed and the pipeline
\* is being aborted for the first time
C15_Witness ==
    /\ RedoFailure /\ lastRetry.tries = maxTries /\ lastRetry.to = "abort"
    /\ failed[lastRetry.task] = maxTries
    /\ Len(timers) = 1 /\ settled = "pending"

-----------------------------------------------------------------------------
(* C16 *)

-----------------------------------------------------------------------------
(* C17 *)

\* C17: in a run that has not been aborted, after each scheduler event a
\* non-empty pending queue means that all simultaneousMax slots are occupied,
\* and with at most simultaneousMax planned tasks every one of them has been
\* started by the time the first event is handled.
C17_SlotsFilled ==
    (pc = "sched" /\ ~aborted) =>
        /\ videoQueue # << >> => running = simultaneousMax
        /\ Cardinality(plan.tasks) <= simultaneousMax =>
              \A n \in plan.tasks : spawned[n] >= 1

\* five renditions planned and all five started, no process has exited yet
C17_Witness ==
    /\ pc = "sched" /\ ~aborted
    /\ Cardinality(plan.tasks) = Len(resolutions)
    /\ \A n \in plan.tasks : spawned[n] = 1 /\ BagIn(Act(n, "par", "run"), acts)
    /\ running = Len(resolutions) /\ videoQueue = << >>

-----------------------------------------------------------------------------
(* C18 *)

\* C18: in no reachable state does the final manifest path hold a manifest
\* whose BaseURL elements have not been rewritten to bare file names.
C18_RewrittenBeforeVisible == files[mpdPath] \in {"none", "fixed"}

-----------------------------------------------------------------------------
(* C19 *)

\* C19: while the multiplexer writes the manifest, every video stream and
\* the audio stream the manifest refers to is in place under its final name.
C19_StreamsInPlace ==
    pc = "mux" =>
        /\ \A i \in DOMAIN plan.dashVideos : files[plan.dashVideos[i]] = "complete"
        /\ plan.audioPath # NoPath => files[plan.audioPath] = "complete"

-----------------------------------------------------------------------------
(* C20 *)

\* the scheduler has not settled, a task stands in a queue, nothing is in flight
Stalled ==
    /\ pc = "sched" /\ settled = "pending"
    /\ videoQueue # << >> \/ redoQueue # << >>
    /\ acts = EmptyBag /\ timers = << >>

\* C20: if every process exits and every rename completes in the end, each run
\* of the scheduler settles: its promise is resolved, every task's process
\* having exited with code 0, or rejected; and it never stands unsettled with
\* a task in a queue and nothing in flight.
C20_RunSettles ==
    /\ [](settled = "resolved" => plan.tasks \subseteq succeeded)
    /\ []~Stalled
    /\ (settled = "pending") ~> (settled \in {"resolved", "rejected"})

\* a run is resolved after one of its tasks was finished by the redo queue
C20_Witness ==
    /\ settled = "resolved" /\ ~aborted
    /\ \E n \in plan.tasks : failed[n] = maxTries - 1 /\ n \in succeeded

\* a run is rejected after a task used up its tries
C20_WitnessRejected ==
    /\ settled = "rejected"
    /\ \E n \in plan.tasks : failed[n] = maxTries

-----------------------------------------------------------------------------
(* C21 *)

\* C21 as stated: whenever exactly one video rendition remains to be produced
\* (the task list holds one task), no dedicated audio stream is generated.
C21_OneTaskNoAudio ==
    Cardinality(plan.tasks) = 1 => spawned["audio"] = 0

\* C21: whenever exactly one large rendition (height 480 or above) belongs to
\* the output set (groupedVideoCount = 1), no dedicated audio stream is wanted
\* or generated, and that rendition is the file .av.webm, which carries the
\* audio.
C21_OneLargeNoAudio ==
    (plan.groupedVideoCount = 1 /\ pc \notin {"start", "returnedFalse"}) =>
        /\ plan.audioPath = NoPath /\ spawned["audio"] = 0
        /\ files[tmp(audioOnlyPath)] = "none"
        /\ pc = "sched" => plan.dashVideos = << avPath >>

\* a source with an audio track and nothing on disk, one large rendition planned
C21_Witness ==
    /\ plan.groupedVideoCount = 1 /\ pc = "sched"
    /\ src.nAudio > 0 /\ ~plan.hasDesktopVideo
    /\ "480p" \in plan.tasks /\ Cardinality(plan.tasks) = 3
    /\ spawned["audio"] = 0

-----------------------------------------------------------------------------
(* C22 *)

\* the candidate renditions of height 480 or above that shouldSkipVideo keeps,
\* whether their files are on disk or still to be made
LargeKept(d, p) ==
    IF ~d.video THEN {}
    ELSE { i \in DOMAIN resolutions :
             resolutions[i].h >= 480 /\ ~shouldSkipVideo(d, p, resolutions[i]) }

\* C22: the manifest multiplexer is spawned only for an asset with more than
\* one large rendition in its output set, present on disk or made in this run,
\* and a run that returns true has spawned it exactly when there are more
\* than one.
C22_ManifestIffSeveralLarge ==
    /\ spawned["mux"] > 0 => Cardinality(LargeKept(src, plan)) > 1
    /\ pc = "returnedTrue" =>
          (spawned["mux"] = 1 <=> Cardinality(LargeKept(src, plan)) > 1)

\* 1080p and 720p were on disk, the tasks were 480p, 360p and 320p, and the
\* manifest is being made
C22_Witness ==
    /\ pc = "mux" /\ spawned["mux"] = 1
    /\ plan.tasks = {"480p", "360p", "320p"}
    /\ spawned["1080p"] = 0 /\ spawned["720p"] = 0
    /\ files[vPath(1080)] = "complete" /\ files[vPath(720)] = "complete"
    /\ Len(plan.dashVideos) = 3

-----------------------------------------------------------------------------
(* C23 *)

\* C23: the task list, and so the set of renditions ever spawned, holds no
\* rendition of height 1080 when the asset is not a movie and none higher
\* than 480 when the asset is an extra.
C23_ClassCaps ==
    \A n \in TaskNames :
        (n \in plan.tasks \/ spawned[n] > 0) =>
            /\ src.cls # "movie" => Resolution(n).h # 1080
            /\ src.cls = "extra" => Resolution(n).h <= 480

\* a full-size TV episode with nothing on disk: every rendition but 1080p
C23_Witness ==
    /\ pc = "sched" /\ src.cls = "tv" /\ src.h = 1080
    /\ plan.tasks = {"720p", "480p", "360p", "320p"}

\* a full-size extra with nothing on disk: 480p and the two small renditions
C23_WitnessExtra ==
    /\ pc = "sched" /\ src.cls = "extra" /\ src.h = 1080
    /\ plan.tasks = {"480p", "360p", "320p"}

-----------------------------------------------------------------------------
(* C24 *)

\* the task list has been built
ListBuilt == src.video /\ pc \in {"sched", "mux", "returnedTrue"}

\* the candidate is more than a quarter wider and more than a quarter higher
\* than the source's picture; widths of candidates are in hundredths
Upscales(r) == 4 * r.w > 500 * src.w /\ 4 * r.h > 5 * src.h

\* one of the other rules of shouldSkipVideo drops the candidate
OtherwiseSkipped(r) ==
    \/ (src.cls # "movie" /\ r.h = 1080)
    \/ (src.cls = "extra" /\ r.h > 480)
    \/ (plan.hasDesktopVideo /\ r.h >= 480)
    \/ (plan.hasMobile /\ r.h = 360)
    \/ (plan.hasSample /\ r.h = 320)

\* C24: no candidate that is both more than 1.25 times as wide and more than
\* 1.25 times as high as the source is in the task list, and every other
\* candidate is in it unless another rule skips it or its file is on disk.
C24_UpscaleRule ==
    ListBuilt =>
        \A i \in DOMAIN resolutions :
            LET r == resolutions[i]
            IN /\ Upscales(r) => r.name \notin plan.tasks
               /\ (~Upscales(r) /\ ~OtherwiseSkipped(r)
                     /\ files[videoPathOf(plan.groupedVideoCount, r)] = "none"
                     /\ files[tmp(videoPathOf(plan.groupedVideoCount, r))] = "none")
                    => r.name \in plan.tasks

\* a PAL DVD movie (720x576): 720p is exactly 1.25 times as high and is kept,
\* 1080p is dropped
C24_Witness ==
    /\ ListBuilt /\ src.w = 720 /\ src.h = 576 /\ src.cls = "movie"
    /\ "720p" \in plan.tasks /\ "1080p" \notin plan.tasks
    /\ ~plan.hasDesktopVideo

-----------------------------------------------------------------------------
(* C25 *)

\* C25: the error counter the progress record keeps for a task equals the
\* number of attempts of that task that have failed so far in the run.
C25_ErrorsCountFailures ==
    \A n \in TaskNames : MapGet(progress.errors, n, 0) = failed[n]

-----------------------------------------------------------------------------
(* C26 *)

\* C26: every percent of the progress record, kept in tenths of a percent, is
\* the sentinel -1 or lies between 0 and 100; it is at most 99.9 while a
\* process of the task is running, and it is 100 only for a task whose
\* process has exited with code 0.
C26_PercentRange ==
    \A n \in DOMAIN progress.percent :
        LET v == progress.percent[n]
        IN /\ v = -10 \/ (0 <= v /\ v <= 1000)
           /\ (\E a \in DOMAIN acts : a.t = n /\ Alive(a)) => v <= 999
           /\ v = 1000 => n \in succeeded

-----------------------------------------------------------------------------
(* C27 *)

\* C27: a chunk of a transcoder's output that holds neither a percent token
\* nor a time token, on stdout or on stderr, raises no error and leaves the
\* recorded percent, speed and error count of every task as they were.
C27_NoTokenNoChange ==
    [][(\E a \in ActSet : Progress(a, NoData) \/ StderrData(a, NoData)) =>
          /\ progress' = progress
          /\ pc' = pc /\ err' = err /\ settled' = settled]_vars

\* the one chunk of output of the run has been handled while the first
\* process of the task is running, and nothing has been recorded
C27_Witness ==
    /\ run = 1 /\ pc = "sched" /\ reports = 0
    /\ plan.hasDesktopVideo /\ plan.hasMobile /\ ~plan.hasSample
    /\ BagIn(Act("320p", "par", "run"), acts) /\ spawned["320p"] = 1
    /\ progress = NoProgress

-----------------------------------------------------------------------------
(* C28 *)

\* C28: once the planner has run, groupedVideoCount is not negative and is
\* the number of candidate renditions of height 480 or above that
\* shouldSkipVideo keeps.
C28_GroupedCount ==
    pc \notin {"start", "returnedFalse"} =>
        /\ plan.groupedVideoCount >= 0
        /\ plan.groupedVideoCount = Cardinality(LargeKept(src, plan))

-----------------------------------------------------------------------------
(* C29 *)

\* C29: when the catch handler of a task has just called cleanUpAndFail no
\* transcoder of the run is in flight (the process that failed has exited),
\* and none is in flight once the promise has been rejected.
C29_NothingInFlightAtAbort ==
    /\ lastRetry.to = "abort" => InFlight(acts) = 0
    /\ settled = "rejected" => InFlight(acts) = 0

-----------------------------------------------------------------------------
(* C30 *)

AudioErrs == { ExitErr("audio"), RenameErr("audio") }

\* C30: the audio step spawns ffmpeg at most audios.length times, pass i being
\* the (i+1)-th spawn, and the passes name pairwise different tracks of the
\* source; when the run has thrown an error of the audio step, every track
\* has been tried, the error report is written, the audio file is not under
\* its final name and no video task has been spawned; and an audio file the
\* step had to make is under its final name exactly when an attempt succeeded.
C30_AudioAttempts ==
    /\ spawned["audio"] <= src.nAudio
    /\ pc \in {"audio", "audioRename"} =>
          /\ audioTry < src.nAudio /\ spawned["audio"] = audioTry + 1
          /\ audioTrack(src, audioTry) \in 0 .. (src.nAudio - 1)
          /\ \A i \in 0 .. (audioTry - 1) : audioTrack(src, i) # audioTrack(src, audioTry)
    /\ (pc = "threw" /\ err \in AudioErrs) =>
          /\ spawned["audio"] = src.nAudio
          /\ files[errorReportPath] = "complete"
          /\ files[plan.audioPath] = "none"
          /\ \A n \in TaskNames : spawned[n] = 0
    /\ spawned["audio"] > 0 =>
          /\ renamed["audio"] <= 1
          /\ files[plan.audioPath] # "none" <=> renamed["audio"] = 1
          /\ files[plan.audioPath] \in {"none", "complete"}

\* the first track of a source with two audio tracks failed and the second
\* attempt has brought the audio file to its final name
C30_Witness ==
    /\ run = 1 /\ src.nAudio = 2 /\ spawned["audio"] = 2 /\ audioTry = 1
    /\ renamed["audio"] = 1 /\ files[plan.audioPath] = "complete"

\* both tracks of a source with two audio tracks failed: the run has thrown
\* with the error report written and nothing else spawned
C30_WitnessRejected ==
    /\ run = 1 /\ src.nAudio = 2 /\ spawned["audio"] = 2
    /\ pc = "threw" /\ err = ExitErr("audio")
    /\ files[errorReportPath] = "complete"

=============================================================================
